---- MODULE Spec2Model ----
(***************************************************************************)
(* Model of the trip planner backend (backend/server.py).                  *)
(*                                                                         *)
(* Python strings that the code inspects (destination, location, dates)    *)
(* are sequences of one-character strings, so that lower(), strip(),       *)
(* replace(), title(), strftime() and fromisoformat() are computed the way *)
(* the code computes them.  Ratings are kept in tenths (4.5 -> 45), money  *)
(* results in hundredths (883.33 -> 88333).                                *)
(***************************************************************************)
EXTENDS Integers, Sequences, FiniteSets, TLC

(* ------------------------------ bounds -------------------------------- *)
NumReq == 2
MaxGuests == 1
MaxTodayOffset == 1

(* ------------------------- Python str helpers ------------------------- *)
UpperChars == <<"A", "B", "C", "D", "E", "F", "G", "H", "I", "J", "K", "L", "M", "N", "O", "P", "Q", "R", "S", "T", "U", "V", "W", "X", "Y", "Z">>

LowerChars == <<"a", "b", "c", "d", "e", "f", "g", "h", "i", "j", "k", "l", "m", "n", "o", "p", "q", "r", "s", "t", "u", "v", "w", "x", "y", "z">>

Digits == <<"0", "1", "2", "3", "4", "5", "6", "7", "8", "9">>

Range(s) == {s[i] : i \in 1..Len(s)}

IndexIn(c, s) == CHOOSE i \in 1..Len(s) : s[i] = c

IsUpper(c) == c \in Range(UpperChars)

IsLower(c) == c \in Range(LowerChars)

IsCased(c) == IsUpper(c) \/ IsLower(c)

lower_ch(c) == IF IsUpper(c) THEN LowerChars[IndexIn(c, UpperChars)] ELSE c

upper_ch(c) == IF IsLower(c) THEN UpperChars[IndexIn(c, LowerChars)] ELSE c

\* str.lower()
lower(s) == [i \in 1..Len(s) |-> lower_ch(s[i])]

NotSpace(c) == c # " "

\* str.replace(" ", "")
replace_spaces(s) == SelectSeq(s, NotSpace)

\* str.strip(): leading and trailing whitespace only
strip(s) ==
    LET keep == {i \in 1..Len(s) : s[i] # " "}
    IN  IF keep = {} THEN <<>>
        ELSE LET first == CHOOSE i \in keep : \A j \in keep : i <= j
                 last  == CHOOSE i \in keep : \A j \in keep : j <= i
             IN  SubSeq(s, first, last)

\* str.title(): a cased character is upper-cased after an uncased one (or at
\* the start) and lower-cased after a cased one
title(s) ==
    [i \in 1..Len(s) |->
        IF i = 1 \/ ~IsCased(s[i - 1]) THEN upper_ch(s[i]) ELSE lower_ch(s[i])]

(* --------------------- datetime: proleptic Gregorian ------------------ *)
IsLeap(y) == (y % 4 = 0) /\ ((y % 100 # 0) \/ (y % 400 = 0))

DaysInMonth(y, m) ==
    IF m = 2 THEN (IF IsLeap(y) THEN 29 ELSE 28)
    ELSE IF m \in {4, 6, 9, 11} THEN 30 ELSE 31

DaysBeforeYear(y) ==
    (y - 1) * 365 + ((y - 1) \div 4) - ((y - 1) \div 100) + ((y - 1) \div 400)

RECURSIVE DaysBeforeMonth(_, _)
DaysBeforeMonth(y, m) ==
    IF m = 1 THEN 0 ELSE DaysBeforeMonth(y, m - 1) + DaysInMonth(y, m - 1)

\* date.toordinal(): 0001-01-01 is day 1
ymd2ord(y, m, d) == DaysBeforeYear(y) + DaysBeforeMonth(y, m) + d

\* date.fromordinal(), as <<year, month, day>>
ord2ymd(n) ==
    LET y == CHOOSE yy \in (n \div 366)..((n \div 365) + 1) :
                 DaysBeforeYear(yy) < n /\ n <= DaysBeforeYear(yy + 1)
        r == n - DaysBeforeYear(y)
        m == CHOOSE mm \in 1..12 :
                 DaysBeforeMonth(y, mm) < r
                 /\ r <= DaysBeforeMonth(y, mm) + DaysInMonth(y, mm)
    IN  <<y, m, r - DaysBeforeMonth(y, m)>>

DigitChar(k) == Digits[k + 1]

DigitVal(c) == IndexIn(c, Digits) - 1

\* datetime.strftime("%Y-%m-%d") of the datetime whose date has ordinal n
strftime(n) ==
    LET ymd == ord2ymd(n)
        y == ymd[1]
        m == ymd[2]
        d == ymd[3]
    IN  << DigitChar(y \div 1000), DigitChar((y \div 100) % 10),
           DigitChar((y \div 10) % 10), DigitChar(y % 10), "-",
           DigitChar(m \div 10), DigitChar(m % 10), "-",
           DigitChar(d \div 10), DigitChar(d % 10) >>

IsoYear(s) ==
    1000 * DigitVal(s[1]) + 100 * DigitVal(s[2]) + 10 * DigitVal(s[3]) + DigitVal(s[4])

IsoMonth(s) == 10 * DigitVal(s[6]) + DigitVal(s[7])

IsoDay(s) == 10 * DigitVal(s[9]) + DigitVal(s[10])

\* datetime.fromisoformat(s) returns (TRUE) or raises ValueError (FALSE), for
\* the strings of DateStrings: a YYYY-MM-DD string naming a calendar date
IsIsoDate(s) ==
    /\ Len(s) = 10
    /\ s[5] = "-" /\ s[8] = "-"
    /\ \A i \in {1, 2, 3, 4, 6, 7, 9, 10} : s[i] \in Range(Digits)
    /\ IsoYear(s) >= 1
    /\ IsoMonth(s) \in 1..12
    /\ IsoDay(s) >= 1 /\ IsoDay(s) <= DaysInMonth(IsoYear(s), IsoMonth(s))

\* the ordinal of the (midnight) datetime that datetime.fromisoformat(s) returns
fromisoformat(s) == ymd2ord(IsoYear(s), IsoMonth(s), IsoDay(s))

(* ------------------------------ hotel data ---------------------------- *)
Hotel(n, loc, price, rating10, am) ==
    [name |-> n, location |-> loc, price_per_night |-> price,
     rating |-> rating10, amenities |-> am, availability |-> TRUE]

KeyParis == <<"p", "a", "r", "i", "s">>

KeyTokyo == <<"t", "o", "k", "y", "o">>

KeyNewYork == <<"n", "e", "w", " ", "y", "o", "r", "k">>

KeyLondon == <<"l", "o", "n", "d", "o", "n">>

KeyBarcelona == <<"b", "a", "r", "c", "e", "l", "o", "n", "a">>

KeyRome == <<"r", "o", "m", "e">>

ParisHotels ==
    << Hotel("Hotel des Grands Boulevards", "Central Paris", 280, 45,
             <<"WiFi", "Restaurant", "Bar", "24h Reception">>),
       Hotel("Le Meurice", "Tuileries", 850, 49,
             <<"Spa", "Michelin Restaurant", "Concierge", "Fitness Center">>),
       Hotel("Hotel Malte Opera", "Opera District", 195, 42,
             <<"WiFi", "Business Center", "Pet Friendly">>) >>

TokyoHotels ==
    << Hotel("Aman Tokyo", "Otemachi", 1200, 48,
             <<"Spa", "Pool", "Traditional Tea Service", "City Views">>),
       Hotel("Shibuya Excel Hotel Tokyu", "Shibuya", 320, 43,
             <<"WiFi", "Restaurant", "Shopping Mall Access">>),
       Hotel("Hotel Gracery Shinjuku", "Shinjuku", 180, 41,
             <<"Godzilla Views", "WiFi", "Restaurant">>) >>

NewYorkHotels ==
    << Hotel("The Plaza", "Fifth Avenue", 750, 47,
             <<"Spa", "Shopping", "Fine Dining", "Central Park Views">>),
       Hotel("Pod Hotels Times Square", "Times Square", 220, 42,
             <<"Modern Pods", "Rooftop Bar", "Fitness Center">>),
       Hotel("1 Hotels Brooklyn Bridge", "Brooklyn", 385, 46,
             <<"Eco-Friendly", "Bridge Views", "Farm-to-Table Restaurant">>) >>

MOCK_HOTELS ==
    [k \in {KeyParis, KeyTokyo, KeyNewYork} |->
        IF k = KeyParis THEN ParisHotels
        ELSE IF k = KeyTokyo THEN TokyoHotels
        ELSE NewYorkHotels]

\* the default argument of MOCK_HOTELS.get in search_trip
GenericHotels ==
    << Hotel("Grand Hotel", "City Center", 250, 43, <<"WiFi", "Restaurant", "Pool">>),
       Hotel("Budget Inn", "Downtown", 120, 38, <<"WiFi", "Breakfast">>) >>

(* ----------------------------- weather data --------------------------- *)
Day(t, c, desc) == [temp |-> t, condition |-> c, description |-> desc]

Weather(t, c, h, w, f) ==
    [temp |-> t, condition |-> c, humidity |-> h, wind |-> w, forecast |-> f]

weather_data ==
    [k \in {KeyParis, KeyTokyo, KeyNewYork, KeyLondon, KeyBarcelona, KeyRome} |->
        IF k = KeyParis THEN
            Weather(18, "Clear", 65, 12,
                << Day(18, "Clear", "clear sky"), Day(16, "Clouds", "few clouds"),
                   Day(14, "Rain", "light rain"), Day(12, "Clouds", "overcast clouds"),
                   Day(15, "Clear", "clear sky") >>)
        ELSE IF k = KeyTokyo THEN
            Weather(8, "Clear", 45, 8,
                << Day(8, "Clear", "clear sky"), Day(10, "Clouds", "few clouds"),
                   Day(12, "Clear", "clear sky"), Day(9, "Clouds", "scattered clouds"),
                   Day(11, "Clear", "clear sky") >>)
        ELSE IF k = KeyNewYork THEN
            Weather(5, "Snow", 78, 15,
                << Day(5, "Snow", "light snow"), Day(3, "Clouds", "overcast clouds"),
                   Day(7, "Clear", "clear sky"), Day(4, "Clouds", "broken clouds"),
                   Day(6, "Clear", "clear sky") >>)
        ELSE IF k = KeyLondon THEN
            Weather(12, "Rain", 85, 18,
                << Day(12, "Rain", "light rain"), Day(11, "Clouds", "overcast clouds"),
                   Day(13, "Rain", "moderate rain"), Day(10, "Clouds", "broken clouds"),
                   Day(14, "Clouds", "few clouds") >>)
        ELSE IF k = KeyBarcelona THEN
            Weather(22, "Clear", 58, 10,
                << Day(22, "Clear", "clear sky"), Day(24, "Clear", "clear sky"),
                   Day(21, "Clouds", "few clouds"), Day(20, "Clear", "clear sky"),
                   Day(23, "Clear", "clear sky") >>)
        ELSE
            Weather(19, "Clouds", 72, 14,
                << Day(19, "Clouds", "scattered clouds"), Day(17, "Rain", "light rain"),
                   Day(20, "Clear", "clear sky"), Day(18, "Clouds", "broken clouds"),
                   Day(21, "Clear", "clear sky") >>)]

default_weather ==
    Weather(20, "Clear", 60, 10,
        << Day(20, "Clear", "clear sky"), Day(22, "Clouds", "few clouds"),
           Day(18, "Rain", "light rain"), Day(19, "Clouds", "scattered clouds"),
           Day(21, "Clear", "clear sky") >>)

(* --------------------------- get_weather_data ------------------------- *)
\* forecast_date = today + timedelta(days=i), i = 0, 1, ... (enumerate)
forecast_date_from_tomorrow(today_ord, i) == today_ord + i

forecast_date(today_ord, i) == today_ord + (i - 1)

adjusted_forecast(forecast, today_ord) ==
    [i \in 1..Len(forecast) |->
        [date |-> strftime(forecast_date(today_ord, i)),
         temp |-> forecast[i].temp,
         condition |-> forecast[i].condition,
         description |-> forecast[i].description]]

\* weather_data.get(location.lower().strip(), default_weather)
lookup_weather(location) ==
    LET location_key == strip(lower(location))
    IN  IF location_key \in DOMAIN weather_data
        THEN weather_data[location_key] ELSE default_weather

get_weather_data(location, today_ord) ==
    LET weather == lookup_weather(location)
    IN  [location |-> title(location),
         temperature |-> weather.temp,
         condition |-> weather.condition,
         humidity |-> weather.humidity,
         wind_speed |-> weather.wind,
         forecast_days |-> adjusted_forecast(weather.forecast, today_ord)]

(* ------------------------ search_trip: hotels ------------------------- *)
destination_key(destination) == replace_spaces(lower(destination))

\* MOCK_HOTELS.get(destination_key, [Grand Hotel, Budget Inn])
candidate_hotels_no_default(table, destination) ==
    IF destination_key(destination) \in DOMAIN table
    THEN table[destination_key(destination)] ELSE <<>>

candidate_hotels(table, destination) ==
    IF destination_key(destination) \in DOMAIN table
    THEN table[destination_key(destination)] ELSE GenericHotels

IsLowPrice(h) == h.price_per_night < 200

IsHighPrice(h) == h.price_per_night > 400

filter_by_budget_swapped(budget_range, hs) ==
    IF budget_range = "low" THEN SelectSeq(hs, IsHighPrice)
    ELSE IF budget_range = "high" THEN SelectSeq(hs, IsLowPrice)
    ELSE hs

filter_by_budget(budget_range, hs) ==
    IF budget_range = "low" THEN SelectSeq(hs, IsLowPrice)
    ELSE IF budget_range = "high" THEN SelectSeq(hs, IsHighPrice)
    ELSE hs

\* key=lambda x: (-x.rating, x.price_per_night), compared as Python tuples
KeyLess_ascending(a, b) ==
    \/ a.rating < b.rating
    \/ a.rating = b.rating /\ a.price_per_night < b.price_per_night

KeyLess(a, b) ==
    \/ a.rating > b.rating
    \/ a.rating = b.rating /\ a.price_per_night < b.price_per_night

\* sorted() is stable: an element goes after the elements whose key is not greater
InsertSorted(t, h) ==
    LET k == Cardinality({i \in 1..Len(t) : ~KeyLess(h, t[i])})
    IN  SubSeq(t, 1, k) \o <<h>> \o SubSeq(t, k + 1, Len(t))

RECURSIVE sorted(_)
sorted(hs) ==
    IF hs = <<>> THEN <<>>
    ELSE InsertSorted(sorted(SubSeq(hs, 1, Len(hs) - 1)), hs[Len(hs)])

TopN == 3

\* sorted(filtered_hotels, key=...)[:3]
select_best(hs) ==
    LET s == sorted(hs)
    IN  SubSeq(s, 1, IF Len(s) < TopN THEN Len(s) ELSE TopN)

(* ------------------------- search_trip: cost -------------------------- *)
RECURSIVE SumPrices(_)
SumPrices(hs) ==
    IF hs = <<>> THEN 0
    ELSE hs[1].price_per_night + SumPrices(Tail(hs))

DefaultAvgPrice == 200

\* avg_price as the fraction avg_price_num / avg_price_den
avg_price_num_no_default(best) == IF best # <<>> THEN SumPrices(best) ELSE 0

avg_price_num(best) == IF best # <<>> THEN SumPrices(best) ELSE DefaultAvgPrice

avg_price_den(best) == IF best # <<>> THEN Len(best) ELSE 1

\* (checkout - checkin).days
nights_of(checkin_date, checkout_date) ==
    fromisoformat(checkout_date) - fromisoformat(checkin_date)

\* the integer nearest to n / d, halves to the even neighbour (Python round)
RoundHalfEven(n, d) ==
    LET q == n \div d
        r == n % d
    IN  IF 2 * r < d THEN q
        ELSE IF 2 * r > d THEN q + 1
        ELSE IF q % 2 = 0 THEN q ELSE q + 1

\* round(avg_price * nights * guests, 2), in hundredths
estimated_cost_cents(best, nights, guests) ==
    RoundHalfEven(100 * avg_price_num(best) * nights * guests, avg_price_den(best))

(* ---------------------- get_ai_recommendations ------------------------ *)
NoText == [kind |-> "none", destination |-> <<>>, temperature |-> 0,
           condition |-> "", text |-> ""]

LlmText(t) == [kind |-> "llm", destination |-> <<>>, temperature |-> 0,
               condition |-> "", text |-> t]

\* the sentence of the except branch: "Welcome to {destination}! Based on the
\* current weather ({weather.temperature}°C, {weather.condition}), ..."
Fallback(destination, weather) ==
    [kind |-> "fallback", destination |-> destination,
     temperature |-> weather.temperature, condition |-> weather.condition,
     text |-> ""]

(* ------------------------------- inputs ------------------------------- *)
Reqs == 1..NumReq

\* the requests that the specification Spec serves
Solo == {1}

Destinations ==
    { <<"P", "a", "r", "i", "s">>,
      <<"P", "A", "R", "I", "S">>,
      <<"P", "a", "r", " ", "i", "s">>,
      <<"T", "o", "k", "y", "o">>,
      <<"N", "e", "w", " ", "Y", "o", "r", "k">>,
      <<"L", "o", "n", "d", "o", "n">>,
      <<>>,
      <<"I", "n", "v", "a", "l", "i", "d", "L", "o", "c", "a", "t", "i", "o", "n", "X", "Y", "Z", "1", "2", "3">> }

InvalidDate == <<"i", "n", "v", "a", "l", "i", "d", "-", "d", "a", "t", "e">>

DateStrings ==
    { InvalidDate,
      <<"2", "0", "2", "4", "-", "0", "1", "-", "0", "1">>,
      <<"2", "0", "2", "4", "-", "0", "2", "-", "2", "9">> }

Budgets == {"low", "mid", "high", "invalid"}

Guests == (-1)..MaxGuests

LlmTexts == {"advice"}

\* the local dates datetime.now() may fall on, as ordinals
Todays ==
    { ymd2ord(2023, 12, 29) + k : k \in 0..MaxTodayOffset }
    \cup { ymd2ord(2024, 2, 26) + k : k \in 0..MaxTodayOffset }

\* typed: the JSON body has every required field and each field has the type
\* TripSearchRequest declares (pydantic accepts it)
SearchBodies ==
    [kind : {"search-trip"}, destination : Destinations,
     checkin_date : DateStrings, checkout_date : DateStrings,
     guests : Guests, budget_range : Budgets, typed : BOOLEAN]

\* GET /weather/{location}: destination holds the path parameter, which the
\* route matches only when it is not empty
WeatherRequests ==
    [kind : {"weather"}, destination : Destinations \ {<<>>},
     checkin_date : {<<>>}, checkout_date : {<<>>},
     guests : {0}, budget_range : {""}, typed : {TRUE}]

NoRequest ==
    [kind |-> "none", destination |-> <<>>, checkin_date |-> <<>>,
     checkout_date |-> <<>>, guests |-> 0, budget_range |-> "", typed |-> TRUE]

NoWeather ==
    [location |-> <<>>, temperature |-> 0, condition |-> "", humidity |-> 0,
     wind_speed |-> 0, forecast_days |-> <<>>]

(* -------------------------------- state ------------------------------- *)
VARIABLES
    mock_hotels,          \* the module-level MOCK_HOTELS dict
    request,              \* request[r]: the request r carries
    pc,                   \* where the handler of r stands
    hotels,               \* search_trip locals
    filtered_hotels,
    best_hotels,
    today,                \* the date datetime.now() gave get_weather_data
    weather_info,
    ai_suggestions,
    calls,                \* outbound calls of r that have not returned
    llm_sends,            \* chat.send_message calls made for r
    llm_error,            \* get_ai_recommendations took its except branch
    estimated_total_cost, \* in hundredths
    status                \* HTTP status of the answer, 0 while unanswered

vars == << mock_hotels, request, pc, hotels, filtered_hotels, best_hotels, today,
           weather_info, ai_suggestions, calls, llm_sends, llm_error,
           estimated_total_cost, status >>

Init ==
    /\ mock_hotels = MOCK_HOTELS
    /\ request = [r \in Reqs |-> NoRequest]
    /\ pc = [r \in Reqs |-> "idle"]
    /\ hotels = [r \in Reqs |-> <<>>]
    /\ filtered_hotels = [r \in Reqs |-> <<>>]
    /\ best_hotels = [r \in Reqs |-> <<>>]
    /\ today = [r \in Reqs |-> 0]
    /\ weather_info = [r \in Reqs |-> NoWeather]
    /\ ai_suggestions = [r \in Reqs |-> NoText]
    /\ calls = [r \in Reqs |-> {}]
    /\ llm_sends = [r \in Reqs |-> 0]
    /\ llm_error = [r \in Reqs |-> FALSE]
    /\ estimated_total_cost = [r \in Reqs |-> 0]
    /\ status = [r \in Reqs |-> 0]

(* ------------------------------- actions ------------------------------ *)
\* POST /search-trip with a body pydantic rejects: 422, the handler never runs
RejectSearchTrip(r, body) ==
    /\ pc[r] = "idle"
    /\ body.kind = "search-trip" /\ ~body.typed
    /\ request' = [request EXCEPT ![r] = body]
    /\ status' = [status EXCEPT ![r] = 422]
    /\ pc' = [pc EXCEPT ![r] = "done"]
    /\ UNCHANGED << mock_hotels, hotels, filtered_hotels, best_hotels, today,
                    weather_info, ai_suggestions, calls, llm_sends, llm_error,
                    estimated_total_cost >>

StartSearchTrip_filters_table(r, body) ==
    /\ pc[r] = "idle"
    /\ body.kind = "search-trip" /\ body.typed
    /\ request' = [request EXCEPT ![r] = body]
    /\ LET hs == candidate_hotels(mock_hotels, body.destination)
           fs == filter_by_budget(body.budget_range, hs)
           k  == destination_key(body.destination)
       IN  /\ hotels' = [hotels EXCEPT ![r] = hs]
           /\ filtered_hotels' = [filtered_hotels EXCEPT ![r] = fs]
           /\ best_hotels' = [best_hotels EXCEPT ![r] = select_best(fs)]
           /\ mock_hotels' = IF k \in DOMAIN mock_hotels
                                THEN [mock_hotels EXCEPT ![k] = fs]
                                ELSE mock_hotels
    /\ calls' = [calls EXCEPT ![r] = @ \cup {"weather"}]
    /\ pc' = [pc EXCEPT ![r] = "await_weather"]
    /\ UNCHANGED << today, weather_info, ai_suggestions, llm_sends,
                    llm_error, estimated_total_cost, status >>

\* search_trip up to the call of get_weather_data
StartSearchTrip(r, body) ==
    /\ pc[r] = "idle"
    /\ body.kind = "search-trip" /\ body.typed
    /\ request' = [request EXCEPT ![r] = body]
    /\ LET hs == candidate_hotels(mock_hotels, body.destination)
           fs == filter_by_budget(body.budget_range, hs)
       IN  /\ hotels' = [hotels EXCEPT ![r] = hs]
           /\ filtered_hotels' = [filtered_hotels EXCEPT ![r] = fs]
           /\ best_hotels' = [best_hotels EXCEPT ![r] = select_best(fs)]
    /\ calls' = [calls EXCEPT ![r] = @ \cup {"weather"}]
    /\ pc' = [pc EXCEPT ![r] = "await_weather"]
    /\ UNCHANGED << mock_hotels, today, weather_info, ai_suggestions, llm_sends,
                    llm_error, estimated_total_cost, status >>

\* get_weather up to the call of get_weather_data
StartGetWeather(r, body) ==
    /\ pc[r] = "idle"
    /\ body.kind = "weather"
    /\ request' = [request EXCEPT ![r] = body]
    /\ calls' = [calls EXCEPT ![r] = @ \cup {"weather"}]
    /\ pc' = [pc EXCEPT ![r] = "await_weather"]
    /\ UNCHANGED << mock_hotels, hotels, filtered_hotels, best_hotels, today,
                    weather_info, ai_suggestions, llm_sends, llm_error,
                    estimated_total_cost, status >>

\* get_weather_data returns on the day t; get_weather answers with its result
WeatherReturnOn(r, t) ==
    /\ pc[r] = "await_weather"
    /\ today' = [today EXCEPT ![r] = t]
    /\ weather_info' = [weather_info EXCEPT ![r] =
                           get_weather_data(request[r].destination, t)]
    /\ calls' = [calls EXCEPT ![r] = @ \ {"weather"}]
    /\ IF request[r].kind = "weather"
       THEN /\ status' = [status EXCEPT ![r] = 200]
            /\ pc' = [pc EXCEPT ![r] = "done"]
       ELSE /\ status' = status
            /\ pc' = [pc EXCEPT ![r] = "weather_done"]
    /\ UNCHANGED << mock_hotels, request, hotels, filtered_hotels, best_hotels,
                    ai_suggestions, llm_sends, llm_error, estimated_total_cost >>

WeatherReturn(r) == \E t \in Todays : WeatherReturnOn(r, t)

\* get_ai_recommendations: an exception while the chat and the prompt are built
AiBuildFails(r) ==
    /\ pc[r] = "weather_done"
    /\ ai_suggestions' = [ai_suggestions EXCEPT ![r] =
                             Fallback(request[r].destination, weather_info[r])]
    /\ llm_error' = [llm_error EXCEPT ![r] = TRUE]
    /\ pc' = [pc EXCEPT ![r] = "ai_done"]
    /\ UNCHANGED << mock_hotels, request, hotels, filtered_hotels, best_hotels,
                    today, weather_info, calls, llm_sends, estimated_total_cost,
                    status >>

AiSend_before_weather(r) ==
    /\ pc[r] \in {"await_weather", "weather_done"}
    /\ request[r].kind = "search-trip"
    /\ calls' = [calls EXCEPT ![r] = @ \cup {"llm"}]
    /\ llm_sends' = [llm_sends EXCEPT ![r] = @ + 1]
    /\ pc' = [pc EXCEPT ![r] = "await_llm"]
    /\ UNCHANGED << mock_hotels, request, hotels, filtered_hotels, best_hotels,
                    today, weather_info, ai_suggestions, llm_error,
                    estimated_total_cost, status >>

\* get_ai_recommendations up to await chat.send_message(user_message)
AiSend(r) ==
    /\ pc[r] = "weather_done"
    /\ calls' = [calls EXCEPT ![r] = @ \cup {"llm"}]
    /\ llm_sends' = [llm_sends EXCEPT ![r] = @ + 1]
    /\ pc' = [pc EXCEPT ![r] = "await_llm"]
    /\ UNCHANGED << mock_hotels, request, hotels, filtered_hotels, best_hotels,
                    today, weather_info, ai_suggestions, llm_error,
                    estimated_total_cost, status >>

\* chat.send_message returns the text
AiReturn(r) ==
    /\ pc[r] = "await_llm"
    /\ \E t \in LlmTexts :
        ai_suggestions' = [ai_suggestions EXCEPT ![r] = LlmText(t)]
    /\ calls' = [calls EXCEPT ![r] = @ \ {"llm"}]
    /\ pc' = [pc EXCEPT ![r] = "ai_done"]
    /\ UNCHANGED << mock_hotels, request, hotels, filtered_hotels, best_hotels,
                    today, weather_info, llm_sends, llm_error,
                    estimated_total_cost, status >>

AiRaise_surfaced(r) ==
    /\ pc[r] = "await_llm"
    /\ llm_error' = [llm_error EXCEPT ![r] = TRUE]
    /\ calls' = [calls EXCEPT ![r] = @ \ {"llm"}]
    /\ status' = [status EXCEPT ![r] = 500]
    /\ pc' = [pc EXCEPT ![r] = "done"]
    /\ UNCHANGED << mock_hotels, request, hotels, filtered_hotels, best_hotels,
                    today, weather_info, ai_suggestions, llm_sends,
                    estimated_total_cost >>

\* chat.send_message raises: the except branch returns the fallback sentence
AiRaise(r) ==
    /\ pc[r] = "await_llm"
    /\ ai_suggestions' = [ai_suggestions EXCEPT ![r] =
                             Fallback(request[r].destination, weather_info[r])]
    /\ llm_error' = [llm_error EXCEPT ![r] = TRUE]
    /\ calls' = [calls EXCEPT ![r] = @ \ {"llm"}]
    /\ pc' = [pc EXCEPT ![r] = "ai_done"]
    /\ UNCHANGED << mock_hotels, request, hotels, filtered_hotels, best_hotels,
                    today, weather_info, llm_sends, estimated_total_cost, status >>

DatesParse(req) == IsIsoDate(req.checkin_date) /\ IsIsoDate(req.checkout_date)

\* search_trip after get_ai_recommendations: the cost and the answer
Respond(r) ==
    /\ pc[r] = "ai_done"
    /\ DatesParse(request[r])
    /\ estimated_total_cost' = [estimated_total_cost EXCEPT ![r] =
           estimated_cost_cents(best_hotels[r],
               nights_of(request[r].checkin_date, request[r].checkout_date),
               request[r].guests)]
    /\ status' = [status EXCEPT ![r] = 200]
    /\ pc' = [pc EXCEPT ![r] = "done"]
    /\ UNCHANGED << mock_hotels, request, hotels, filtered_hotels, best_hotels,
                    today, weather_info, ai_suggestions, calls, llm_sends,
                    llm_error >>

RespondError_before_generation(r) ==
    /\ pc[r] \in {"weather_done", "ai_done"}
    /\ ~DatesParse(request[r])
    /\ status' = [status EXCEPT ![r] = 500]
    /\ pc' = [pc EXCEPT ![r] = "done"]
    /\ UNCHANGED << mock_hotels, request, hotels, filtered_hotels, best_hotels,
                    today, weather_info, ai_suggestions, calls, llm_sends,
                    llm_error, estimated_total_cost >>

\* datetime.fromisoformat raises ValueError, which nothing catches: 500
RespondError(r) ==
    /\ pc[r] = "ai_done"
    /\ ~DatesParse(request[r])
    /\ status' = [status EXCEPT ![r] = 500]
    /\ pc' = [pc EXCEPT ![r] = "done"]
    /\ UNCHANGED << mock_hotels, request, hotels, filtered_hotels, best_hotels,
                    today, weather_info, ai_suggestions, calls, llm_sends,
                    llm_error, estimated_total_cost >>

Next ==
    \E r \in Solo :
        \/ \E body \in SearchBodies : RejectSearchTrip(r, body)
        \/ \E body \in SearchBodies : StartSearchTrip(r, body)
        \/ \E body \in WeatherRequests : StartGetWeather(r, body)
        \/ WeatherReturn(r)
        \/ AiBuildFails(r)
        \/ AiSend(r)
        \/ AiReturn(r)
        \/ AiRaise(r)
        \/ Respond(r)
        \/ RespondError(r)

Spec == Init /\ [][Next]_vars

(* ----------------- several requests served concurrently --------------- *)
ConcBody(destination, budget, checkout, typed) ==
    [kind |-> "search-trip", destination |-> destination,
     checkin_date |-> <<"2", "0", "2", "4", "-", "0", "1", "-", "0", "1">>,
     checkout_date |-> checkout, guests |-> 1, budget_range |-> budget,
     typed |-> typed]

LeapDay == <<"2", "0", "2", "4", "-", "0", "2", "-", "2", "9">>

\* the bodies of the concurrent clients: two budgets for one table entry,
\* another entry, an unparseable date and a body pydantic rejects
ConcBodies ==
    { ConcBody(<<"P", "a", "r", "i", "s">>, "low", LeapDay, TRUE),
      ConcBody(<<"P", "a", "r", "i", "s">>, "mid", LeapDay, TRUE),
      ConcBody(<<"T", "o", "k", "y", "o">>, "mid", LeapDay, TRUE),
      ConcBody(<<"P", "a", "r", "i", "s">>, "mid", InvalidDate, TRUE),
      ConcBody(<<"P", "a", "r", "i", "s">>, "low", LeapDay, FALSE) }

ConcWeatherRequests ==
    {w \in WeatherRequests : w.destination = <<"P", "a", "r", "i", "s">>}

\* the concurrent requests are served on one day
ConcTodays == {ymd2ord(2023, 12, 31)}

\* the event loop runs the handlers of all requests, a step of one at a time
NextConc ==
    \E r \in Reqs :
        \/ \E body \in ConcBodies : RejectSearchTrip(r, body)
        \/ \E body \in ConcBodies : StartSearchTrip(r, body)
        \/ \E body \in ConcWeatherRequests : StartGetWeather(r, body)
        \/ \E t \in ConcTodays : WeatherReturnOn(r, t)
        \/ AiBuildFails(r)
        \/ AiSend(r)
        \/ AiReturn(r)
        \/ AiRaise(r)
        \/ Respond(r)
        \/ RespondError(r)

SpecConc == Init /\ [][NextConc]_vars

(* ------------------------------ properties ---------------------------- *)
IsSearch(r) == request[r].kind = "search-trip"

\* r was answered with a recommendation
Recommended(r) == IsSearch(r) /\ pc[r] = "done" /\ status[r] = 200

Prices(hs) == {hs[i].price_per_night : i \in 1..Len(hs)}

\* C1: a recommendation for budget "low" holds only hotels under 200 a night,
\* one for "high" only hotels over 400, and for any other budget value the
\* filtered list is the whole candidate list.
C1_BudgetFilter ==
    \A r \in Reqs : Recommended(r) =>
        /\ request[r].budget_range = "low" =>
               \A p \in Prices(best_hotels[r]) : p < 200
        /\ request[r].budget_range = "high" =>
               \A p \in Prices(best_hotels[r]) : p > 400
        /\ request[r].budget_range \notin {"low", "high"} =>
               /\ filtered_hotels[r] = hotels[r]
               /\ Range(best_hotels[r]) = Range(hotels[r])

\* a "low" recommendation that kept a hotel and dropped another
C1_Witness ==
    \E r \in Reqs :
        /\ Recommended(r) /\ request[r].budget_range = "low"
        /\ best_hotels[r] # <<>>
        /\ Len(best_hotels[r]) < Len(hotels[r])

RanksAbove(c, b) ==
    \/ c.rating > b.rating
    \/ c.rating = b.rating /\ c.price_per_night < b.price_per_night

\* C2: best_hotels has at most 3 entries, in descending rating and, for equal
\* ratings, ascending price; its entries are filtered candidates, as many as
\* 3 allows, and no candidate left out ranks above a returned one.
C2_Ranking ==
    \A r \in Reqs : IsSearch(r) /\ request[r].typed /\ pc[r] # "idle" =>
        LET best == best_hotels[r]
            cand == filtered_hotels[r]
        IN  /\ Len(best) <= 3
            /\ Len(best) = (IF Len(cand) < 3 THEN Len(cand) ELSE 3)
            /\ \A i \in 1..(Len(best) - 1) :
                   \/ best[i].rating > best[i + 1].rating
                   \/ /\ best[i].rating = best[i + 1].rating
                      /\ best[i].price_per_night <= best[i + 1].price_per_night
            /\ Range(best) \subseteq Range(cand)
            /\ Cardinality(Range(best)) = Len(best)
            /\ \A c \in Range(cand) \ Range(best) :
                   \A b \in Range(best) : ~RanksAbove(c, b)

\* a recommendation of 3 hotels that the ranking had to reorder
C2_Witness ==
    \E r \in Reqs :
        /\ Recommended(r)
        /\ Len(best_hotels[r]) = 3
        /\ best_hotels[r] # filtered_hotels[r]

Nights(r) == nights_of(request[r].checkin_date, request[r].checkout_date)

\* 100 * (average price) * nights * guests as the fraction ExactNum / ExactDen
ExactNum(r) ==
    100 * Nights(r) * request[r].guests *
        (IF best_hotels[r] = <<>> THEN 200 ELSE SumPrices(best_hotels[r]))

ExactDen(r) == IF best_hotels[r] = <<>> THEN 1 ELSE Len(best_hotels[r])

\* C3 as stated: with nights >= 0 the estimated cost is exactly
\* average price x nights x guests (200 for the average of no hotels).
C3_ExactCost ==
    \A r \in Reqs : Recommended(r) /\ Nights(r) >= 0 =>
        estimated_total_cost[r] * ExactDen(r) = ExactNum(r)

\* C3: with nights >= 0 the estimated cost is average price x nights x guests
\* rounded to the nearest hundredth, the average of no hotels being 200; a
\* well-typed request with parseable dates is answered 200 also when the
\* filter leaves no hotel.
C3_RoundedCost ==
    \A r \in Reqs :
        /\ Recommended(r) /\ Nights(r) >= 0 =>
               /\ 2 * (estimated_total_cost[r] * ExactDen(r) - ExactNum(r)) <= ExactDen(r)
               /\ 2 * (ExactNum(r) - estimated_total_cost[r] * ExactDen(r)) <= ExactDen(r)
        /\ IsSearch(r) /\ pc[r] = "done" /\ request[r].typed
             /\ DatesParse(request[r]) => status[r] = 200

\* a recommendation without hotels, priced from the default average
C3_Witness ==
    \E r \in Reqs :
        /\ Recommended(r) /\ best_hotels[r] = <<>>
        /\ Nights(r) > 0 /\ request[r].guests > 0
        /\ estimated_total_cost[r] = 100 * 200 * Nights(r) * request[r].guests

\* C4: a search whose checkout date precedes its check-in date is never
\* answered with a recommendation whose estimated cost is negative.
C4_NoNegativeCost ==
    \A r \in Reqs :
        IsSearch(r) /\ pc[r] = "done" /\ DatesParse(request[r])
          /\ fromisoformat(request[r].checkout_date) < fromisoformat(request[r].checkin_date)
        => ~(status[r] = 200 /\ estimated_total_cost[r] < 0)

\* the body of test_error_handling, up to the checkout date
IsTestBody(req) ==
    /\ req.destination = <<>>
    /\ ~IsIsoDate(req.checkin_date)
    /\ req.guests < 0
    /\ req.budget_range \notin {"low", "mid", "high"}

\* C5: a malformed search body (one pydantic rejects, or the body of
\* test_error_handling) is answered 422, never 200 or 500.
C5_Malformed422 ==
    \A r \in Reqs :
        IsSearch(r) /\ pc[r] = "done"
          /\ (~request[r].typed \/ IsTestBody(request[r]))
        => status[r] = 422

Resolvable(location) == strip(lower(location)) \in DOMAIN weather_data

\* C6: GET /weather/{location} answers 404 for a location that is not a known
\* location and 200 only for a known one.
C6_Unknown404 ==
    \A r \in Reqs : request[r].kind = "weather" /\ pc[r] = "done" =>
        /\ ~Resolvable(request[r].destination) => status[r] = 404
        /\ status[r] = 200 => Resolvable(request[r].destination)

\* C7: when the text generation fails, no second generation call is made,
\* ai_suggestions is the fallback sentence for the destination and the
\* current temperature and condition, and the answer (status, hotels, weather,
\* cost) is what the request gets when the generation succeeds.
C7_FallbackOnFailure ==
    \A r \in Reqs : llm_error[r] =>
        /\ llm_sends[r] <= 1
        /\ ai_suggestions[r] =
               [kind |-> "fallback", destination |-> request[r].destination,
                temperature |-> lookup_weather(request[r].destination).temp,
                condition |-> lookup_weather(request[r].destination).condition,
                text |-> ""]
        /\ pc[r] \in {"ai_done", "done"}
        /\ pc[r] = "done" =>
               /\ status[r] = (IF DatesParse(request[r]) THEN 200 ELSE 500)
               /\ best_hotels[r] =
                      select_best(filter_by_budget(request[r].budget_range,
                          candidate_hotels(MOCK_HOTELS, request[r].destination)))
               /\ weather_info[r] = get_weather_data(request[r].destination, today[r])
               /\ status[r] = 200 =>
                      estimated_total_cost[r] =
                          estimated_cost_cents(best_hotels[r], Nights(r), request[r].guests)

\* a recommendation whose one generation call failed
C7_Witness ==
    \E r \in Reqs :
        /\ Recommended(r) /\ llm_error[r] /\ llm_sends[r] = 1
        /\ ai_suggestions[r].kind = "fallback"

NamePriceRating(hs) ==
    [i \in 1..Len(hs) |-> <<hs[i].name, hs[i].price_per_night, hs[i].rating>>]

\* C8: a search whose destination key is not a key of the hotel table has the
\* candidates Grand Hotel (250, 4.3) and Budget Inn (120, 3.8), and its
\* best_hotels is that list filtered by the budget and ranked.
C8_GenericFallback ==
    \A r \in Reqs :
        IsSearch(r) /\ request[r].typed /\ pc[r] # "idle"
          /\ replace_spaces(lower(request[r].destination))
                 \notin {KeyParis, KeyTokyo, KeyNewYork}
        => /\ NamePriceRating(hotels[r]) =
                  << <<"Grand Hotel", 250, 43>>, <<"Budget Inn", 120, 38>> >>
           /\ NamePriceRating(best_hotels[r]) =
                  (IF request[r].budget_range = "low"
                       THEN << <<"Budget Inn", 120, 38>> >>
                   ELSE IF request[r].budget_range = "high" THEN <<>>
                   ELSE << <<"Grand Hotel", 250, 43>>, <<"Budget Inn", 120, 38>> >>)

\* a "low" recommendation for a destination without table entry
C8_Witness ==
    \E r \in Reqs :
        /\ Recommended(r) /\ request[r].budget_range = "low"
        /\ replace_spaces(lower(request[r].destination))
               \notin {KeyParis, KeyTokyo, KeyNewYork}
        /\ Len(hotels[r]) = 2 /\ Len(best_hotels[r]) = 1

ForecastDates(r) ==
    [i \in 1..Len(weather_info[r].forecast_days) |->
        weather_info[r].forecast_days[i].date]

\* C9: every WeatherInfo of the static lookup has exactly 5 forecast entries,
\* the first dated the day of the request and each next one a day later.
C9_Forecast ==
    \A r \in Reqs : weather_info[r] # NoWeather =>
        LET ds == ForecastDates(r)
        IN  /\ Len(ds) = 5
            /\ \A i \in 1..Len(ds) : IsIsoDate(ds[i])
            /\ fromisoformat(ds[1]) = today[r]
            /\ ord2ymd(today[r]) = <<IsoYear(ds[1]), IsoMonth(ds[1]), IsoDay(ds[1])>>
            /\ \A i \in 1..(Len(ds) - 1) :
                   fromisoformat(ds[i + 1]) = fromisoformat(ds[i]) + 1

\* GET /weather of an unknown location answered with a forecast that runs
\* into the next month
C9_Witness ==
    \E r \in Reqs :
        /\ request[r].kind = "weather" /\ pc[r] = "done" /\ status[r] = 200
        /\ ~Resolvable(request[r].destination)
        /\ Len(weather_info[r].forecast_days) = 5
        /\ IsoMonth(ForecastDates(r)[5]) # IsoMonth(ForecastDates(r)[1])

\* C10: while the text-generation call of a request is outstanding its weather
\* lookup is not, and a generation call is made only once the weather lookup
\* has returned its WeatherInfo.
C10_Sequential ==
    \A r \in Reqs :
        /\ calls[r] # {"weather", "llm"}
        /\ ("llm" \in calls[r] \/ llm_sends[r] > 0) =>
               /\ "weather" \notin calls[r]
               /\ weather_info[r] # NoWeather

\* the generation call of a search is outstanding
C10_Witness ==
    \E r \in Reqs :
        /\ IsSearch(r) /\ "llm" \in calls[r] /\ llm_sends[r] = 1

\* the destinations that have an entry of their own in the hotel table
TableNames == {KeyParis, KeyTokyo, KeyNewYork}

\* C12: a search whose destination is, in any letter case, the name of a
\* hotel table entry (Paris, Tokyo, New York) has that entry's hotels as its
\* candidate list and not the generic list.
C12_TableNamesSelectable ==
    \A r \in Reqs :
        IsSearch(r) /\ request[r].typed /\ pc[r] # "idle"
          /\ lower(request[r].destination) \in TableNames
        => /\ hotels[r] = MOCK_HOTELS[lower(request[r].destination)]
           /\ hotels[r] # GenericHotels

\* C13: a search fails on its dates only after its weather lookup and its
\* generation call have both completed (the generation call was sent, or
\* failed while it was built), and has no answer while either is pending.
C13_DatesParsedLast ==
    \A r \in Reqs : IsSearch(r) /\ request[r].typed =>
        /\ pc[r] \in {"await_weather", "weather_done", "await_llm"} => status[r] = 0
        /\ status[r] # 0 =>
               /\ calls[r] = {}
               /\ weather_info[r] # NoWeather
               /\ ai_suggestions[r].kind \in {"llm", "fallback"}
               /\ llm_sends[r] = 1 \/ llm_error[r]
        /\ status[r] = 500 => ~DatesParse(request[r])

\* a search with an unparseable check-in date answered 500 after its
\* generation call was sent and returned a text
C13_Witness ==
    \E r \in Reqs :
        /\ IsSearch(r) /\ pc[r] = "done" /\ status[r] = 500
        /\ ~IsIsoDate(request[r].checkin_date)
        /\ llm_sends[r] = 1 /\ ai_suggestions[r].kind = "llm"

\* C11: in every interleaving of the requests the hotel table stays as it
\* was constructed, and the hotels, the weather and the cost of each request
\* are those the request gets when it is served alone.
C11_Isolation ==
    /\ mock_hotels = MOCK_HOTELS
    /\ \A r \in Reqs : IsSearch(r) /\ request[r].typed /\ pc[r] # "idle" =>
        /\ hotels[r] = candidate_hotels(MOCK_HOTELS, request[r].destination)
        /\ best_hotels[r] =
               select_best(filter_by_budget(request[r].budget_range,
                   candidate_hotels(MOCK_HOTELS, request[r].destination)))
        /\ weather_info[r] # NoWeather =>
               weather_info[r] = get_weather_data(request[r].destination, today[r])
        /\ pc[r] = "done" =>
               status[r] = (IF DatesParse(request[r]) THEN 200 ELSE 500)
        /\ Recommended(r) =>
               estimated_total_cost[r] =
                   estimated_cost_cents(
                       select_best(filter_by_budget(request[r].budget_range,
                           candidate_hotels(MOCK_HOTELS, request[r].destination))),
                       Nights(r), request[r].guests)

\* a "low" Paris search has been answered while a "mid" Paris search, with
\* all three Paris hotels, waits for its generation call
C11_Witness ==
    \E r1 \in Reqs : \E r2 \in Reqs \ {r1} :
        /\ Recommended(r1) /\ request[r1].budget_range = "low"
        /\ lower(request[r1].destination) = KeyParis
        /\ Len(best_hotels[r1]) = 1
        /\ IsSearch(r2) /\ pc[r2] = "await_llm"
        /\ request[r2].budget_range = "mid"
        /\ lower(request[r2].destination) = KeyParis
        /\ Len(best_hotels[r2]) = 3

====
